---- MODULE Spec2Model ----
(***************************************************************************)
(* The server side of the drawing-and-guessing party game: the shared      *)
(* game_state object (game_state.py), the socket event handlers and the    *)
(* phase helpers (server.py) and the countdown Timer (timer.py).           *)
(*                                                                         *)
(* One action stands for one inbound event handler or one timer callback,  *)
(* run to its end (or to the Python exception that ends it: the state      *)
(* written before the exception stays written).                            *)
(*                                                                         *)
(*   Spec      three players and a latecomer, the plain course of a game   *)
(*             with MaxStray events out of turn                            *)
(*   SpecSolo  a server that only connections 1 and 4 ever reach           *)
(*   SpecDraw  the events of the lobby and the drawing phase alone         *)
(*   SpecConc  the vote handlers and the voting timer's expiry split at    *)
(*             the points where another thread may run                     *)
(*             (async_mode="threading", no lock anywhere in server.py)     *)
(*   SpecSilent  the plain course of the first drawing with one player     *)
(*             that stops responding                                       *)
(*   SpecStory  the plain course of the first drawing played with the      *)
(*             texts of the worked example                                 *)
(*   SpecTimer  one Timer object, its countdown thread a statement a step  *)
(*                                                                         *)
(* Left out: image data, the write-only fields ready, player_order,        *)
(* current_drawer_index and color_index, and the outbound messages.        *)
(* Dictionaries are iterated in increasing session id; only the order of   *)
(* automatically filled-in votes and guesses depends on it.  A countdown   *)
(* is one step: the ticks between start and expiry change nothing but      *)
(* time_remaining.                                                         *)
(***************************************************************************)
EXTENDS Integers, Sequences, FiniteSets, TLC

\* ------------------------------------------------------------------ config
MIN_PLAYERS == 3
MAX_PLAYERS == 80
NUM_ROUNDS == 1
DRAWING_TIME == 10
GUESSING_TIME == 10
VOTING_TIME == 15
ADD_TIME_SECONDS == 30

\* ------------------------------------------------------------------ bounds
\* The clients keep to the plain course of a game (Expected below) except for
\* at most MaxStray events that are out of turn and change the state; a
\* disconnect counts as one.
MaxStray == 1
\* The same allowance where only connections 1 and 4 exist, and where only
\* the lobby and the drawing phase are followed.
SoloStray == 2
DrawStray == 3
\* Guessing and voting are followed for the drawings 0..MaxPlayed of a round.
MaxPlayed == 0
\* At most MaxOrphans superseded, still active timers of each kind.
MaxOrphans == 1
\* add_time is followed at most MaxExtensions times for one drawing timer.
MaxExtensions == 1
\* show_current_scores is followed at most MaxScorings times for one drawing.
MaxScorings == 2
\* SpecTimer: a Timer of at most MaxDuration seconds is started at most
\* MaxStarts times and stopped at most MaxStops times, and add_time(AddedTime)
\* is called at most once.
MaxDuration == 2
AddedTime == 1
MaxStarts == 2
MaxStops == 1

\* ------------------------------------------------------------------ inputs
\* The connections (request.sid). Connection k joins with name NameOf[k] and
\* emoji EmojiOf[k]: 4 carries the name of 1 in another letter case.
NameOf == <<"ann", "bob", "cy", "Ann">>
EmojiOf == <<"e1", "e2", "e3", "e4">>
\* The word connection k types as its guess.
WordOf == <<"dog", "bird", "owl", "Dog">>
Sids == DOMAIN NameOf
\* The connections of the players that open the game; the others come late.
Regulars == {1, 2, 3}

\* Python's None.
None == "<None>"
DEFAULT_PROMPT == "Draw something cool"
\* The prompt file as load_prompts finds it at start-up.
InitialBank == {"flying cat"}

\* str.lower() and str.strip() on the texts of the model.
Lower(t) ==
    CASE t = "Ann" -> "ann"
      [] t = "FLYING CAT" -> "flying cat"
      [] t = "RED BARN" -> "red barn"
      [] t = "DRAW SOMETHING COOL" -> "draw something cool"
      [] t = "Draw something cool" -> "draw something cool"
      [] t = "Dog" -> "dog"
      [] t = "Superman" -> "superman"
      [] OTHER -> t

Strip(t) ==
    CASE t = " " -> ""
      [] t = " dog" -> "dog"
      [] OTHER -> t

\* The same text as a client may type it in capitals.
Upper(t) ==
    CASE t = "flying cat" -> "FLYING CAT"
      [] t = "red barn" -> "RED BARN"
      [] t = "Draw something cool" -> "DRAW SOMETHING COOL"
      [] OTHER -> t

\* ------------------------------------------------------------------- state
VARIABLES
    phase,                  \* game_state.phase
    players,                \* game_state.players: sid -> player record
    drawings,               \* game_state.drawings
    guesses,                \* game_state.guesses: index -> list of guesses
    votes,                  \* game_state.votes: index -> list of votes
    current_drawing_index,  \* game_state.current_drawing_index
    round,                  \* game_state.round
    continue_ready,         \* game_state.continue_ready
    prompt_bank,            \* server.PROMPT_BANK
    drawing_timer,          \* server.drawing_timer
    guessing_timer,         \* server.guessing_timer
    voting_timer,           \* server.voting_timer
    orphans,                \* superseded Timer objects whose thread still counts
    closed,                 \* connections that are not, or no longer, open
    scoreRuns,              \* history: index -> runs of show_current_scores
    stray,                  \* number of out-of-turn events so far
    allowance,              \* the bounds of this run: [stray, played]
    inflight,               \* SpecConc: the threads between their two steps
    silent,                 \* SpecSilent: the player that stopped responding
    timer                   \* SpecTimer: one Timer object and its thread

vars == <<phase, players, drawings, guesses, votes, current_drawing_index,
          round, continue_ready, prompt_bank, drawing_timer, guessing_timer,
          voting_timer, orphans, closed, scoreRuns, stray, allowance, inflight,
          silent, timer>>

\* The game state as one value, for the helpers that the handlers call.
GS ==
    [phase |-> phase, players |-> players, drawings |-> drawings,
     guesses |-> guesses, votes |-> votes, idx |-> current_drawing_index,
     round |-> round, ready |-> continue_ready, bank |-> prompt_bank,
     dt |-> drawing_timer, gt |-> guessing_timer, vt |-> voting_timer,
     orphans |-> orphans, scoreRuns |-> scoreRuns]

\* The model's bounds on the counters the code lets grow without limit.
Bounded(s) ==
    /\ s.phase \in {"guessing", "voting"} => s.idx <= allowance.played
    /\ \A k \in DOMAIN s.orphans : s.orphans[k] <= MaxOrphans
    /\ s.dt.time_remaining <= DRAWING_TIME + MaxExtensions * ADD_TIME_SECONDS
    /\ \A i \in DOMAIN s.scoreRuns : s.scoreRuns[i] <= MaxScorings

\* The handler's result s becomes the next state.
Commit(s) ==
    /\ Bounded(s)
    /\ phase' = s.phase
    /\ players' = s.players
    /\ drawings' = s.drawings
    /\ guesses' = s.guesses
    /\ votes' = s.votes
    /\ current_drawing_index' = s.idx
    /\ round' = s.round
    /\ continue_ready' = s.ready
    /\ prompt_bank' = s.bank
    /\ drawing_timer' = s.dt
    /\ guessing_timer' = s.gt
    /\ voting_timer' = s.vt
    /\ orphans' = s.orphans
    /\ scoreRuns' = s.scoreRuns
    /\ timer' = timer

NoTimer == [made |-> FALSE, active |-> FALSE, time_remaining |-> 0]

\* A Timer object with its countdown thread and the record of its callbacks.
\*   thread    where the thread of _countdown stands: "none" (no thread yet),
\*             "while", "tick", "sleep", "store", "if", "clear", "expire",
\*             or "dead" (the thread has returned)
\*   loaded    the time_remaining that the thread's "-= 1" has read
\*   adding    TRUE between the read and the write of add_time's "+="
\*   added     the time_remaining that add_time's "+=" has read
\*   ticks     the values on_tick was called with, in order
\*   expired   the number of on_expire calls
\*   starts, stops, adds   the calls of start, stop and add_time so far
\*   stopped   stop has returned since the last start
\*   late      the number of on_expire calls made while `stopped`
Timer(duration) ==
    [made |-> TRUE, duration |-> duration, time_remaining |-> duration,
     active |-> FALSE, thread |-> "none", loaded |-> 0, adding |-> FALSE,
     added |-> 0, ticks |-> << >>, expired |-> 0, starts |-> 0, stops |-> 0,
     adds |-> 0, stopped |-> FALSE, late |-> 0]
NoObject == [Timer(0) EXCEPT !.made = FALSE]

\* GameState.reset, and the module-level timer variables of server.py.
Start(open, allowed) ==
    /\ phase = "lobby"
    /\ players = << >>
    /\ drawings = << >>
    /\ guesses = << >>
    /\ votes = << >>
    /\ current_drawing_index = 0
    /\ round = 0
    /\ continue_ready = {}
    /\ prompt_bank = InitialBank
    /\ drawing_timer = NoTimer
    /\ guessing_timer = NoTimer
    /\ voting_timer = NoTimer
    /\ orphans = [k \in {"drawing", "guessing", "voting"} |-> 0]
    /\ closed = Sids \ open
    /\ scoreRuns = << >>
    /\ stray = 0
    /\ allowance = allowed
    /\ inflight = {}
    /\ silent = 0
    /\ timer = NoObject

Init == Start(Sids, [stray |-> MaxStray, played |-> MaxPlayed])

\* ------------------------------------------------------- dictionaries, lists
Put(f, k, v) == (k :> v) @@ f
Del(f, k) == [x \in DOMAIN f \ {k} |-> f[x]]
\* list.append: the guesses and votes of a drawing are kept in order of player
\* id. The code reads these lists through membership tests, counts, sums and
\* a first match among texts that handle_guess keeps distinct, none of which
\* depends on the order of arrival.
RECURSIVE Add(_, _)
Add(list, rec) ==
    IF list = << >> \/ rec.player_id < Head(list).player_id THEN <<rec>> \o list
    ELSE <<Head(list)>> \o Add(Tail(list), rec)

Has(list, pid) == \E j \in 1..Len(list) : list[j].player_id = pid
Min(S) == CHOOSE x \in S : \A y \in S : x <= y

\* -------------------------------------------------------------- game_state
add_player(s, sid, name, emoji) ==
    IF s.phase # "lobby" \/ Cardinality(DOMAIN s.players) >= MAX_PLAYERS
    THEN s
    ELSE [s EXCEPT !.players = Put(s.players, sid,
            [name |-> name, emoji |-> emoji, score |-> 0, likes |-> 0,
             prompt |-> None])]

remove_player(s, sid) ==
    [s EXCEPT !.players = Del(s.players, sid), !.ready = s.ready \ {sid}]

can_start_game(s) == Cardinality(DOMAIN s.players) >= MIN_PLAYERS

start_new_round(s) ==
    [s EXCEPT !.round = s.round + 1, !.drawings = << >>, !.guesses = << >>,
              !.votes = << >>, !.idx = 0, !.ready = {}, !.scoreRuns = << >>]

\* all_drawings_complete with the count of all_guesses_complete (one player
\* fewer), as a slip of the pen would leave it.
all_drawings_but_one(s) == Len(s.drawings) = Cardinality(DOMAIN s.players) - 1
all_drawings_complete(s) == Len(s.drawings) = Cardinality(DOMAIN s.players)

all_guesses_complete(s) ==
    /\ s.idx \in DOMAIN s.guesses
    /\ Len(s.guesses[s.idx]) = Cardinality(DOMAIN s.players) - 1

all_votes_complete(s) ==
    /\ s.idx \in DOMAIN s.votes
    /\ Len(s.votes[s.idx]) = Cardinality(DOMAIN s.players)

all_players_ready_to_continue(s) ==
    Cardinality(s.ready) = Cardinality(DOMAIN s.players)

\* The likes loop matching the liked text without regard to letter case.
RECURSIVE AwardLike_any_case(_, _, _)
AwardLike_any_case(P, G, liked) ==
    IF G = << >> THEN P
    ELSE LET g == Head(G)
             P1 == IF Lower(g.guess) = Lower(liked) /\ g.player_id \in DOMAIN P
                   THEN [P EXCEPT ![g.player_id].likes = @ + 1]
                   ELSE P
         IN AwardLike_any_case(P1, Tail(G), liked)

\* The likes loop of calculate_scores_for_drawing for one liked text.
RECURSIVE AwardLike(_, _, _)
AwardLike(P, G, liked) ==
    IF G = << >> THEN P
    ELSE LET g == Head(G)
             P1 == IF g.guess = liked /\ g.player_id \in DOMAIN P
                   THEN [P EXCEPT ![g.player_id].likes = @ + 1]
                   ELSE P
         IN AwardLike(P1, Tail(G), liked)

RECURSIVE AwardLikes(_, _, _)
AwardLikes(P, G, likes) ==
    IF likes = << >> THEN P
    ELSE AwardLikes(AwardLike(P, G, Head(likes)), G, Tail(likes))

\* The author of the first non-empty guess that equals the vote, letter case
\* ignored; 0 when there is none.
RECURSIVE FakeAnswerAuthor(_, _)
FakeAnswerAuthor(G, vote) ==
    IF G = << >> THEN 0
    ELSE IF Head(G).guess # "" /\ Lower(Head(G).guess) = Lower(vote)
         THEN Head(G).player_id
         ELSE FakeAnswerAuthor(Tail(G), vote)

AddScore(P, pid, n) ==
    IF pid \in DOMAIN P THEN [P EXCEPT ![pid].score = @ + n] ELSE P

\* One pass of the loop over the votes that pays the voter but not the artist.
ScoreVote_voter_only(P, v, G, correct, artist) ==
    LET P1 == AwardLikes(P, G, v.likes) IN
    IF v.vote = None \/ v.vote = "" THEN [players |-> P1, ok |-> TRUE]
    ELSE IF correct = None THEN [players |-> P1, ok |-> FALSE]
    ELSE IF Lower(v.vote) = Lower(correct)
         THEN [players |-> AddScore(P1, v.player_id, 1000), ok |-> TRUE]
         ELSE [players |-> AddScore(P1, FakeAnswerAuthor(G, v.vote), 500),
               ok |-> TRUE]

\* One pass of the loop over the votes. ok = FALSE: correct_answer is None
\* and .lower() raised, after this vote's likes were awarded.
ScoreVote(P, v, G, correct, artist) ==
    LET P1 == AwardLikes(P, G, v.likes) IN
    IF v.vote = None \/ v.vote = "" THEN [players |-> P1, ok |-> TRUE]
    ELSE IF correct = None THEN [players |-> P1, ok |-> FALSE]
    ELSE IF Lower(v.vote) = Lower(correct)
         THEN [players |-> AddScore(AddScore(P1, v.player_id, 1000), artist, 500),
               ok |-> TRUE]
         ELSE [players |-> AddScore(P1, FakeAnswerAuthor(G, v.vote), 500),
               ok |-> TRUE]

RECURSIVE ScoreVotes(_, _, _, _, _)
ScoreVotes(P, V, G, correct, artist) ==
    IF V = << >> THEN [players |-> P, ok |-> TRUE]
    ELSE LET r == ScoreVote(P, Head(V), G, correct, artist) IN
         IF r.ok THEN ScoreVotes(r.players, Tail(V), G, correct, artist) ELSE r

\* result: "none" (index out of range, returns None), "ok", or "raised".
calculate_scores_for_drawing(s, i) ==
    IF i >= Len(s.drawings) THEN [s |-> s, result |-> "none"]
    ELSE LET drawing == s.drawings[i + 1]
             G == IF i \in DOMAIN s.guesses THEN s.guesses[i] ELSE << >>
             V == IF i \in DOMAIN s.votes THEN s.votes[i] ELSE << >>
             r == ScoreVotes(s.players, V, G, drawing.prompt, drawing.player_id)
         IN [s |-> [s EXCEPT !.players = r.players],
             result |-> IF r.ok THEN "ok" ELSE "raised"]

\* ------------------------------------------------------------------ timers
\* Timer(duration, ...) followed by start(): the variable now names a new
\* object; the thread of the old one, if still active, counts on.
NewTimer(duration) ==
    [made |-> TRUE, active |-> TRUE, time_remaining |-> duration]
Superseded(old) == IF old.made /\ old.active THEN 1 ELSE 0

\* Timer.stop, behind the "if timer:" test of the stop_* functions.
StopTimer(t) == [t EXCEPT !.active = FALSE]

start_timer(s) ==
    [s EXCEPT !.dt = NewTimer(DRAWING_TIME),
              !.orphans["drawing"] = @ + Superseded(s.dt)]
stop_timer(s) == [s EXCEPT !.dt = StopTimer(s.dt)]

start_guess_timer(s) ==
    [s EXCEPT !.gt = NewTimer(GUESSING_TIME),
              !.orphans["guessing"] = @ + Superseded(s.gt)]
stop_guess_timer(s) == [s EXCEPT !.gt = StopTimer(s.gt)]

start_vote_timer(s) ==
    [s EXCEPT !.vt = NewTimer(VOTING_TIME),
              !.orphans["voting"] = @ + Superseded(s.vt)]
stop_vote_timer(s) == [s EXCEPT !.vt = StopTimer(s.vt)]

\* Timer.add_time
add_time(t, seconds) ==
    IF t.active THEN [t EXCEPT !.time_remaining = @ + seconds] ELSE t

\* ----------------------------------------------------------- phase helpers
\* drawings[current_idx] raises IndexError when the index is out of range:
\* phase and guesses are already written, the timer is not started.
start_guessing_for_current_drawing(s) ==
    LET s1 == [s EXCEPT !.phase = "guessing",
                        !.guesses = IF s.idx \in DOMAIN s.guesses THEN s.guesses
                                    ELSE Put(s.guesses, s.idx, << >>)]
    IN IF s.idx >= Len(s.drawings) THEN s1 ELSE start_guess_timer(s1)

start_voting_for_current_drawing(s) ==
    LET s1 == [s EXCEPT !.phase = "voting",
                        !.votes = IF s.idx \in DOMAIN s.votes THEN s.votes
                                  ELSE Put(s.votes, s.idx, << >>)]
    IN IF s.idx >= Len(s.drawings) \/ s.idx \notin DOMAIN s.guesses
       THEN s1 ELSE start_vote_timer(s1)

show_current_scores(s) ==
    LET r == calculate_scores_for_drawing(s, s.idx) IN
    IF r.result = "none" THEN s
    ELSE [r.s EXCEPT !.scoreRuns =
            Put(r.s.scoreRuns, s.idx,
                IF s.idx \in DOMAIN s.scoreRuns THEN s.scoreRuns[s.idx] + 1 ELSE 1)]

show_final_scores(s) == [s EXCEPT !.phase = "final"]

\* get_random_prompt for every player in turn: the set of possible outcomes.
RECURSIVE AssignPrompts(_, _, _)
AssignPrompts(pids, P, bank) ==
    IF pids = {} THEN {[players |-> P, bank |-> bank]}
    ELSE LET pid == Min(pids) IN
         IF bank = {}
         THEN AssignPrompts(pids \ {pid}, [P EXCEPT ![pid].prompt = DEFAULT_PROMPT], bank)
         ELSE UNION {AssignPrompts(pids \ {pid}, [P EXCEPT ![pid].prompt = prompt],
                                   bank \ {prompt}) : prompt \in bank}

\* start_new_round, the prompts, phase = "drawing", start_timer: the body that
\* handle_start and handle_next_round share.
BeginRound(s) ==
    LET s1 == start_new_round(s) IN
    {start_timer([s1 EXCEPT !.players = a.players, !.bank = a.bank,
                            !.phase = "drawing"]) :
        a \in AssignPrompts(DOMAIN s1.players, s1.players, s1.bank)}

handle_next_round(s) == BeginRound(s)

\* ---------------------------------------------------------- inbound inputs
\* The artist and prompt of the drawing under the cursor, when there is one.
HasCurrent(s) == s.idx < Len(s.drawings)
Current(s) == s.drawings[s.idx + 1]
CurrentGuesses(s) == IF s.idx \in DOMAIN s.guesses THEN s.guesses[s.idx] ELSE << >>

\* Texts connection sid submits as a guess: blank, its word, the word of
\* connection 1 capitalised, and the real prompt in capitals.
GuessInputs(s, sid) ==
    {" ", WordOf[sid], "Dog"}
        \cup (IF HasCurrent(s) /\ Current(s).prompt # None
              THEN {Upper(Current(s).prompt)} ELSE {})

\* Choices a client submits as a vote: none, the real prompt, a stored guess.
VoteInputs(s) ==
    {""} \cup (IF HasCurrent(s) /\ Current(s).prompt # None
               THEN {Current(s).prompt} ELSE {})
         \cup {CurrentGuesses(s)[j].guess : j \in 1..Len(CurrentGuesses(s))}

\* The liked texts sent along: nothing, or one stored guess.
LikeInputs(s) == {<< >>}

\* The connections that send events.
Open(sid) == sid \in Sids \ closed /\ sid # silent
Quiet == UNCHANGED <<closed, allowance, inflight, silent>>
Calm == UNCHANGED <<closed, stray, allowance, inflight, silent>>

\* The plain course of a game, as the user interface leads the clients
\* through it: the regular connections join and someone starts in the lobby,
\* the players draw (in the order of their connection numbers: they differ in
\* nothing else), guess with their word, vote for one of the options shown,
\* send guess_time_up when the guessing timer has run out, continue after the
\* scoreboard and play again at the end.  Every other event is out of turn.
IsPlayer(sid) == sid \in DOMAIN players
IsArtist(sid) == HasCurrent(GS) /\ Current(GS).player_id = sid
ScoreboardShown == phase = "voting" /\ current_drawing_index \in DOMAIN scoreRuns
TimerRanOut(t) == t.made /\ ~t.active /\ t.time_remaining = 0
\* The option list start_voting_for_current_drawing builds for recipient pid,
\* in the order it has before random.shuffle.
Option(text, author, correct) ==
    [text |-> text, player_id |-> author, is_correct |-> correct]

\* The option list without the test that leaves the recipient's guess out.
options_with_own(s, pid) ==
    LET Keep(g) == Strip(g.guess) # ""
        kept == SelectSeq(CurrentGuesses(s), Keep)
    IN <<Option(Current(s).prompt, Current(s).player_id, TRUE)>>
          \o [j \in 1..Len(kept) |-> Option(kept[j].guess, kept[j].player_id, FALSE)]

options(s, pid) ==
    LET Keep(g) == /\ pid = Current(s).player_id \/ g.player_id # pid
                   /\ Strip(g.guess) # ""
        kept == SelectSeq(CurrentGuesses(s), Keep)
    IN <<Option(Current(s).prompt, Current(s).player_id, TRUE)>>
          \o [j \in 1..Len(kept) |-> Option(kept[j].guess, kept[j].player_id, FALSE)]

OptionsShown(sid) ==
    (IF HasCurrent(GS) THEN {Current(GS).prompt} ELSE {})
        \cup {CurrentGuesses(GS)[j].guess : j \in
                {k \in 1..Len(CurrentGuesses(GS)) :
                    /\ CurrentGuesses(GS)[k].player_id # sid
                    /\ Strip(CurrentGuesses(GS)[k].guess) # ""}}
Expected(event, sid, arg) ==
    CASE event = "join" -> phase = "lobby" /\ ~IsPlayer(sid) /\ sid \in Regulars
      [] event = "start_game" -> phase = "lobby"
      [] event = "add_time" -> FALSE
      [] event = "submit_drawing" ->
            /\ phase = "drawing" /\ IsPlayer(sid) /\ sid \in Regulars
            /\ \A q \in DOMAIN players : q < sid /\ q # silent => Has(drawings, q)
      [] event = "submit_guess" ->
            /\ phase = "guessing" /\ IsPlayer(sid) /\ ~IsArtist(sid)
            /\ sid \in Regulars /\ arg = WordOf[sid]
      [] event = "guess_time_up" ->
            phase = "guessing" /\ TimerRanOut(guessing_timer)
      [] event = "submit_vote" ->
            /\ phase = "voting" /\ ~ScoreboardShown /\ IsPlayer(sid) /\ ~IsArtist(sid)
            /\ sid \in Regulars /\ arg \in OptionsShown(sid)
      [] event = "submit_likes_only" ->
            /\ phase = "voting" /\ ~ScoreboardShown /\ IsPlayer(sid) /\ IsArtist(sid)
            /\ sid \in Regulars
      [] event = "continue_to_next" ->
            ScoreboardShown /\ IsPlayer(sid) /\ sid \in Regulars
      [] event = "play_again" -> phase = "final"

\* The event with result s is taken. Out of turn it uses up the allowance,
\* unless it changes nothing.
Take(event, sid, arg, s) ==
    /\ Commit(s)
    /\ stray' = IF Expected(event, sid, arg) \/ s = GS THEN stray ELSE stray + 1
    /\ stray' <= allowance.stray

\* ---------------------------------------------------------------- handlers
join(s, sid, name, emoji) ==
    IF \E pid \in DOMAIN s.players : pid # sid /\ s.players[pid].emoji = emoji
    THEN s                                                   \* emoji_taken
    ELSE IF \E pid \in DOMAIN s.players :
                pid # sid /\ Lower(s.players[pid].name) = Lower(name)
    THEN LET pid == Min({q \in DOMAIN s.players :
                            q # sid /\ Lower(s.players[q].name) = Lower(name)})
         IN [s EXCEPT !.players =
                Put(Del(s.players, pid), sid, [s.players[pid] EXCEPT !.emoji = emoji])]
    ELSE add_player(s, sid, name, emoji)

handle_join(sid) ==
    /\ Open(sid)
    /\ Take("join", sid, "", join(GS, sid, Strip(NameOf[sid]), EmojiOf[sid]))
    /\ Quiet

disconnect(s0, sid) ==
    LET s == remove_player(s0, sid) IN
    CASE s.phase = "drawing" /\ all_drawings_complete(s) ->
            start_guessing_for_current_drawing([stop_timer(s) EXCEPT !.idx = 0])
      [] s.phase = "guessing" /\ all_guesses_complete(s) ->
            start_voting_for_current_drawing(stop_guess_timer(s))
      [] s.phase = "voting" /\ all_votes_complete(s) ->
            show_current_scores(stop_vote_timer(s))
      [] OTHER -> s

handle_disconnect(sid) ==
    /\ Open(sid)
    /\ stray < allowance.stray
    /\ Commit(disconnect(GS, sid))
    /\ closed' = closed \cup {sid}
    /\ stray' = stray + 1
    /\ UNCHANGED <<allowance, inflight, silent>>

handle_start ==
    /\ \E sid \in Sids : Open(sid)
    /\ IF can_start_game(GS)
       THEN \E s \in BeginRound(GS) : Take("start_game", 0, "", s)
       ELSE Take("start_game", 0, "", GS)
    /\ Quiet

extend(s) ==
    [s EXCEPT !.dt = IF s.dt.made THEN add_time(s.dt, ADD_TIME_SECONDS) ELSE s.dt]

handle_add_time ==
    /\ \E sid \in Sids : Open(sid)
    /\ Take("add_time", 0, "", extend(GS))
    /\ Quiet

\* handle_drawing without its test for a drawing already submitted.
drawing_unchecked(s, player_id) ==
    LET s1 == IF player_id \in DOMAIN s.players
              THEN [s EXCEPT !.drawings = Append(s.drawings,
                        [player_id |-> player_id,
                         prompt |-> s.players[player_id].prompt])]
              ELSE s
    IN IF all_drawings_complete(s1)
       THEN start_guessing_for_current_drawing([stop_timer(s1) EXCEPT !.idx = 0])
       ELSE s1

drawing(s, player_id) ==
    IF Has(s.drawings, player_id) THEN s
    ELSE LET s1 == IF player_id \in DOMAIN s.players
                   THEN [s EXCEPT !.drawings = Append(s.drawings,
                            [player_id |-> player_id,
                             prompt |-> s.players[player_id].prompt])]
                   ELSE s
         IN IF all_drawings_complete(s1)
            THEN start_guessing_for_current_drawing([stop_timer(s1) EXCEPT !.idx = 0])
            ELSE s1

handle_drawing(sid) ==
    /\ Open(sid)
    /\ Take("submit_drawing", sid, "", drawing(GS, sid))
    /\ Quiet

\* IndexError, AttributeError (prompt None) and KeyError end the handler
\* before it has written anything.
\* handle_guess comparing the text with the real prompt letter for letter.
guess_prompt_exact(s, player_id, text) ==
    LET g == Strip(text) IN
    IF ~HasCurrent(s) \/ Current(s).prompt = None THEN s
    ELSE IF g = Current(s).prompt THEN s
    ELSE IF s.idx \notin DOMAIN s.guesses THEN s
    ELSE IF \E j \in 1..Len(s.guesses[s.idx]) : Lower(g) = Lower(s.guesses[s.idx][j].guess)
         THEN s
    ELSE LET s1 == IF Has(s.guesses[s.idx], player_id) THEN s
                   ELSE [s EXCEPT !.guesses[s.idx] =
                            Add(@, [player_id |-> player_id, guess |-> g])]
         IN IF all_guesses_complete(s1)
            THEN start_voting_for_current_drawing(stop_guess_timer(s1))
            ELSE s1

\* handle_guess comparing the text with the stored guesses letter for letter.
guess_stored_exact(s, player_id, text) ==
    LET g == Strip(text) IN
    IF ~HasCurrent(s) \/ Current(s).prompt = None THEN s
    ELSE IF Lower(g) = Lower(Current(s).prompt) THEN s
    ELSE IF s.idx \notin DOMAIN s.guesses THEN s
    ELSE IF \E j \in 1..Len(s.guesses[s.idx]) : g = s.guesses[s.idx][j].guess
         THEN s
    ELSE LET s1 == IF Has(s.guesses[s.idx], player_id) THEN s
                   ELSE [s EXCEPT !.guesses[s.idx] =
                            Add(@, [player_id |-> player_id, guess |-> g])]
         IN IF all_guesses_complete(s1)
            THEN start_voting_for_current_drawing(stop_guess_timer(s1))
            ELSE s1

guess(s, player_id, text) ==
    LET g == Strip(text) IN
    IF ~HasCurrent(s) \/ Current(s).prompt = None THEN s
    ELSE IF Lower(g) = Lower(Current(s).prompt) THEN s        \* duplicate_guess
    ELSE IF s.idx \notin DOMAIN s.guesses THEN s
    ELSE IF \E j \in 1..Len(s.guesses[s.idx]) : Lower(g) = Lower(s.guesses[s.idx][j].guess)
         THEN s                                               \* duplicate_guess
    ELSE LET s1 == IF Has(s.guesses[s.idx], player_id) THEN s
                   ELSE [s EXCEPT !.guesses[s.idx] =
                            Add(@, [player_id |-> player_id, guess |-> g])]
         IN IF all_guesses_complete(s1)
            THEN start_voting_for_current_drawing(stop_guess_timer(s1))
            ELSE s1

handle_guess(sid) ==
    /\ Open(sid)
    /\ \E text \in GuessInputs(GS, sid) : Take("submit_guess", sid, text, guess(GS, sid, text))
    /\ Quiet

\* Empty guesses for the pids of `missing`, in turn.
RECURSIVE FillGuesses(_, _)
FillGuesses(list, missing) ==
    IF missing = {} THEN list
    ELSE FillGuesses(Add(list, [player_id |-> Min(missing), guess |-> ""]),
                     missing \ {Min(missing)})

guess_time_up(s) ==
    IF ~HasCurrent(s) THEN s
    ELSE IF s.idx \notin DOMAIN s.guesses THEN s              \* KeyError
    ELSE LET missing == {pid \in DOMAIN s.players :
                            pid # Current(s).player_id /\ ~Has(s.guesses[s.idx], pid)}
             s1 == [s EXCEPT !.guesses[s.idx] = FillGuesses(@, missing)]
         IN start_voting_for_current_drawing(stop_guess_timer(s1))

handle_guess_time_up ==
    /\ \E sid \in Sids : Open(sid)
    /\ Take("guess_time_up", 0, "", guess_time_up(GS))
    /\ Quiet

\* handle_vote (v is the stripped text) and handle_likes_only (v is None).
vote(s, player_id, v, likes) ==
    IF s.idx \notin DOMAIN s.votes THEN s                     \* KeyError
    ELSE LET s1 == IF Has(s.votes[s.idx], player_id) THEN s
                   ELSE [s EXCEPT !.votes[s.idx] =
                            Add(@, [player_id |-> player_id, vote |-> v,
                                    likes |-> likes])]
         IN IF all_votes_complete(s1)
            THEN show_current_scores(stop_vote_timer(s1))
            ELSE s1

handle_vote(sid) ==
    /\ Open(sid)
    /\ \E v \in VoteInputs(GS), likes \in LikeInputs(GS) :
            Take("submit_vote", sid, v, vote(GS, sid, Strip(v), likes))
    /\ Quiet

handle_likes_only(sid) ==
    /\ Open(sid)
    /\ \E likes \in LikeInputs(GS) : Take("submit_likes_only", sid, "", vote(GS, sid, None, likes))
    /\ Quiet

\* The possible states after handle_continue (the prompts of a new round are
\* drawn at random).
continue(s0, player_id) ==
    LET s == [s0 EXCEPT !.ready = @ \cup {player_id}] IN
    IF ~all_players_ready_to_continue(s) THEN {s}
    ELSE LET s1 == [s EXCEPT !.ready = {}, !.idx = @ + 1] IN
         IF s1.idx < Len(s1.drawings) THEN {start_guessing_for_current_drawing(s1)}
         ELSE IF s1.round < NUM_ROUNDS THEN handle_next_round(s1)
         ELSE {show_final_scores(s1)}

handle_continue(sid) ==
    /\ Open(sid)
    /\ \E s \in continue(GS, sid) : Take("continue_to_next", sid, "", s)
    /\ Quiet

\* handle_play_again that forgets to reset the likes.
play_again_keeps_likes(s) ==
    [s EXCEPT !.players = [pid \in DOMAIN s.players |->
                              [s.players[pid] EXCEPT !.score = 0]],
              !.phase = "lobby", !.drawings = << >>, !.guesses = << >>,
              !.votes = << >>, !.round = 0, !.idx = 0, !.ready = {},
              !.scoreRuns = << >>]

play_again(s) ==
    [s EXCEPT !.players = [pid \in DOMAIN s.players |->
                              [s.players[pid] EXCEPT !.score = 0, !.likes = 0]],
              !.phase = "lobby", !.drawings = << >>, !.guesses = << >>,
              !.votes = << >>, !.round = 0, !.idx = 0, !.ready = {},
              !.scoreRuns = << >>]

handle_play_again ==
    /\ \E sid \in Sids : Open(sid)
    /\ Take("play_again", 0, "", play_again(GS))
    /\ Quiet

\* ---------------------------------------------------------- timer threads
\* Empty votes for the pids of `missing`, in turn.
RECURSIVE FillVotes(_, _)
FillVotes(list, missing) ==
    IF missing = {} THEN list
    ELSE FillVotes(Add(list, [player_id |-> Min(missing), vote |-> "",
                              likes |-> << >>]),
                   missing \ {Min(missing)})

\* vote_time_up with the artist left out of the fill-in, as handle_guess_time_up
\* leaves it out.
vote_time_up_but_artist(s) ==
    IF s.idx \notin DOMAIN s.votes
    THEN IF DOMAIN s.players = {} THEN show_current_scores(s) ELSE s
    ELSE LET missing == {pid \in DOMAIN s.players :
                            /\ ~Has(s.votes[s.idx], pid)
                            /\ HasCurrent(s) => pid # Current(s).player_id}
         IN show_current_scores([s EXCEPT !.votes[s.idx] = FillVotes(@, missing)])

vote_time_up(s) ==
    IF s.idx \notin DOMAIN s.votes
    THEN IF DOMAIN s.players = {} THEN show_current_scores(s) ELSE s   \* KeyError
    ELSE LET missing == {pid \in DOMAIN s.players : ~Has(s.votes[s.idx], pid)}
         IN show_current_scores([s EXCEPT !.votes[s.idx] = FillVotes(@, missing)])

\* Timer._countdown of the timer a variable names, from start to expiry.
Expired(t) == [t EXCEPT !.active = FALSE, !.time_remaining = 0]

drawing_timer_expire ==
    /\ drawing_timer.active
    /\ Commit([GS EXCEPT !.dt = Expired(@)])
    /\ Calm

guessing_timer_expire ==
    /\ guessing_timer.active
    /\ Commit([GS EXCEPT !.gt = Expired(@)])
    /\ Calm

voting_timer_expire ==
    /\ voting_timer.active
    /\ Commit(vote_time_up([GS EXCEPT !.vt = Expired(@)]))
    /\ Calm

\* Timer._countdown of a superseded timer.
orphan_expire(kind) ==
    /\ orphans[kind] > 0
    /\ LET s == [GS EXCEPT !.orphans[kind] = @ - 1] IN
       Commit(IF kind = "voting" THEN vote_time_up(s) ELSE s)
    /\ Calm

\* ------------------------------------------------------------ specification
Next ==
    \/ \E sid \in Sids : handle_join(sid)
    \/ \E sid \in Sids : handle_disconnect(sid)
    \/ handle_start
    \/ handle_add_time
    \/ \E sid \in Sids : handle_drawing(sid)
    \/ \E sid \in Sids : handle_guess(sid)
    \/ handle_guess_time_up
    \/ \E sid \in Sids : handle_vote(sid)
    \/ \E sid \in Sids : handle_likes_only(sid)
    \/ \E sid \in Sids : handle_continue(sid)
    \/ handle_play_again
    \/ drawing_timer_expire
    \/ guessing_timer_expire
    \/ voting_timer_expire
    \/ \E kind \in {"drawing", "guessing", "voting"} : orphan_expire(kind)

Spec == Init /\ [][Next]_vars

\* Only connections 1 and 4 ever reach the server.
InitSolo == Start({1, 4}, [stray |-> SoloStray, played |-> MaxPlayed])
SpecSolo == InitSolo /\ [][Next]_vars

\* The lobby and the drawing phase: joins, disconnects, start_game,
\* submit_drawing, add_time and the drawing timer.
InitDraw == Start(Sids, [stray |-> DrawStray, played |-> MaxPlayed])
NextDraw ==
    \/ \E sid \in Sids : handle_join(sid)
    \/ \E sid \in Sids : handle_disconnect(sid)
    \/ handle_start
    \/ handle_add_time
    \/ \E sid \in Sids : handle_drawing(sid)
    \/ drawing_timer_expire
SpecDraw == InitDraw /\ [][NextDraw]_vars

\* ------------------------------------------------------------ interleavings
\* handle_vote and handle_likes_only up to the completeness test: the thread
\* of connection sid has stored its vote.
Threads == UNCHANGED <<closed, allowance, silent>>

handle_vote_store(sid) ==
    /\ Open(sid) /\ sid \notin inflight
    /\ current_drawing_index \in DOMAIN votes
    /\ \E v \in VoteInputs(GS), likes \in LikeInputs(GS) :
            /\ Expected("submit_vote", sid, v)
            /\ Take("submit_vote", sid, v,
                 IF Has(votes[current_drawing_index], sid) THEN GS
                 ELSE [GS EXCEPT !.votes[current_drawing_index] =
                             Add(@, [player_id |-> sid, vote |-> Strip(v),
                                     likes |-> likes])])
    /\ inflight' = inflight \cup {sid}
    /\ Threads

handle_likes_only_store(sid) ==
    /\ Open(sid) /\ sid \notin inflight
    /\ current_drawing_index \in DOMAIN votes
    /\ Expected("submit_likes_only", sid, "")
    /\ \E likes \in LikeInputs(GS) :
            Take("submit_likes_only", sid, "",
                 IF Has(votes[current_drawing_index], sid) THEN GS
                 ELSE [GS EXCEPT !.votes[current_drawing_index] =
                          Add(@, [player_id |-> sid, vote |-> None, likes |-> likes])])
    /\ inflight' = inflight \cup {sid}
    /\ Threads

\* The rest of either handler: the completeness test and what follows it.
handle_vote_check(sid) ==
    /\ sid \in inflight /\ sid # 0
    /\ Commit(IF all_votes_complete(GS) THEN show_current_scores(stop_vote_timer(GS))
              ELSE GS)
    /\ inflight' = inflight \ {sid}
    /\ UNCHANGED stray /\ Threads

\* Timer._countdown of the voting timer: the test "active and
\* time_remaining <= 0" has passed and active is cleared; on_expire is next.
\* The timer's thread is thread 0.
voting_timer_test ==
    /\ voting_timer.active /\ 0 \notin inflight
    /\ Commit([GS EXCEPT !.vt = Expired(@)])
    /\ inflight' = inflight \cup {0}
    /\ UNCHANGED stray /\ Threads

voting_timer_on_expire ==
    /\ 0 \in inflight
    /\ Commit(vote_time_up(GS))
    /\ inflight' = inflight \ {0}
    /\ UNCHANGED stray /\ Threads

InitConc == Start(Regulars, [stray |-> 0, played |-> MaxPlayed])
NextConc ==
    \/ \E sid \in Sids : handle_join(sid)
    \/ handle_start
    \/ \E sid \in Sids : handle_drawing(sid)
    \/ \E sid \in Sids : handle_guess(sid)
    \/ handle_guess_time_up
    \/ drawing_timer_expire
    \/ guessing_timer_expire
    \/ \E sid \in Sids : handle_vote_store(sid)
    \/ \E sid \in Sids : handle_likes_only_store(sid)
    \/ \E sid \in Sids : handle_vote_check(sid)
    \/ voting_timer_test
    \/ voting_timer_on_expire
SpecConc == InitConc /\ [][NextConc]_vars

\* ----------------------------------------------------------------- progress
\* A player stops responding: its connection stays open and it stays in the
\* roster, and it sends nothing more.
go_silent(sid) ==
    /\ silent = 0 /\ phase # "lobby" /\ sid \in DOMAIN players
    /\ silent' = sid
    /\ UNCHANGED <<phase, players, drawings, guesses, votes, current_drawing_index,
                   round, continue_ready, prompt_bank, drawing_timer, guessing_timer,
                   voting_timer, orphans, closed, scoreRuns, stray, allowance,
                   inflight, timer>>

\* The plain course of the first drawing of a game, until the cursor moves on.
InitSilent == Start(Regulars, [stray |-> 0, played |-> MaxPlayed + 1])
NextSilent ==
    /\ current_drawing_index = 0
    /\ \/ \E sid \in Sids : handle_join(sid)
       \/ handle_start
       \/ \E sid \in Sids : handle_drawing(sid)
       \/ \E sid \in Sids : handle_guess(sid)
       \/ handle_guess_time_up
       \/ \E sid \in Sids : handle_vote(sid)
       \/ \E sid \in Sids : handle_likes_only(sid)
       \/ \E sid \in Sids : handle_continue(sid)
       \/ drawing_timer_expire
       \/ guessing_timer_expire
       \/ voting_timer_expire
       \/ \E sid \in Sids : go_silent(sid)
SpecSilent == InitSilent /\ [][NextSilent]_vars

\* Nothing is left to happen: no timer counts, and no event of the plain course
\* from a client that responds changes the state.
Stalled ==
    /\ ~drawing_timer.active /\ ~guessing_timer.active /\ ~voting_timer.active
    /\ \A kind \in DOMAIN orphans : orphans[kind] = 0
    /\ Expected("guess_time_up", 0, "") => guess_time_up(GS) = GS
    /\ \A sid \in Sids : Open(sid) =>
        /\ Expected("submit_drawing", sid, "") => drawing(GS, sid) = GS
        /\ \A text \in GuessInputs(GS, sid) :
              Expected("submit_guess", sid, text) => guess(GS, sid, text) = GS
        /\ \A v \in VoteInputs(GS), likes \in LikeInputs(GS) :
              Expected("submit_vote", sid, v) => vote(GS, sid, Strip(v), likes) = GS
        /\ \A likes \in LikeInputs(GS) :
              Expected("submit_likes_only", sid, "") => vote(GS, sid, None, likes) = GS
        /\ Expected("continue_to_next", sid, "") => continue(GS, sid) = {GS}

\* ------------------------------------------------------- the worked example
\* Players A, B, C are connections 1, 2, 3.  They play the plain course with
\* the texts of the worked example: B guesses 'cat with wings', C tries the
\* real prompt and then 'superman', B votes for the real prompt, C for B's
\* guess, A sends likes only; anyone may add likes (of a guess as it was
\* typed, of a guess in another casing, of a text nobody typed, of the own
\* guess), and any timer may run out first.
StoryGuess == <<{}, {"cat with wings"}, {"flying cat", "superman"}>>
StoryVote == <<{}, {"flying cat"}, {"cat with wings"}>>
StoryLikes ==
    <<{<< >>, <<"cat with wings">>, <<"superman">>, <<"cat with wings", "superman">>,
       <<"Superman">>, <<"moon">>},
      {<< >>, <<"superman">>, <<"Superman">>},
      {<< >>, <<"cat with wings">>, <<"superman">>}>>

CurrentVotes ==
    IF current_drawing_index \in DOMAIN votes THEN votes[current_drawing_index] ELSE << >>

story_guess(sid) ==
    /\ phase = "guessing" /\ IsPlayer(sid) /\ ~IsArtist(sid)
    /\ \E text \in StoryGuess[sid] : Commit(guess(GS, sid, text))
    /\ Calm

story_vote(sid) ==
    /\ phase = "voting" /\ ~ScoreboardShown
    /\ IsPlayer(sid) /\ ~IsArtist(sid) /\ ~Has(CurrentVotes, sid)
    /\ \E v \in StoryVote[sid], likes \in StoryLikes[sid] :
            Commit(vote(GS, sid, Strip(v), likes))
    /\ Calm

story_likes_only(sid) ==
    /\ phase = "voting" /\ ~ScoreboardShown
    /\ IsPlayer(sid) /\ IsArtist(sid) /\ ~Has(CurrentVotes, sid)
    /\ \E likes \in StoryLikes[sid] : Commit(vote(GS, sid, None, likes))
    /\ Calm

InitStory == Start(Regulars, [stray |-> 0, played |-> MaxPlayed])
NextStory ==
    \/ \E sid \in Regulars : handle_join(sid)
    \/ handle_start
    \/ \E sid \in Regulars : handle_drawing(sid)
    \/ \E sid \in Regulars : story_guess(sid)
    \/ handle_guess_time_up
    \/ \E sid \in Regulars : story_vote(sid)
    \/ \E sid \in Regulars : story_likes_only(sid)
    \/ \E sid \in Regulars : handle_continue(sid)
    \/ drawing_timer_expire
    \/ guessing_timer_expire
    \/ voting_timer_expire
SpecStory == InitStory /\ [][NextStory]_vars

\* ------------------------------------------------------------ the Timer
\* One Timer object (timer.py).  start, stop and add_time are called from the
\* handlers' threads; _countdown runs in the Timer's own thread, one
\* statement a step.  "self.time_remaining -= 1" and "+= seconds" read and
\* write in two steps: nothing in timer.py makes them atomic.
others == <<phase, players, drawings, guesses, votes, current_drawing_index,
            round, continue_ready, prompt_bank, drawing_timer, guessing_timer,
            voting_timer, orphans, closed, scoreRuns, stray, allowance, inflight,
            silent>>

\* The while loop of _countdown going on for a tick at zero.
countdown_continues_at_zero(t) == t.active /\ t.time_remaining >= 0

\* The test of the while loop of _countdown, and the test after it.
countdown_continues(t) == t.active /\ t.time_remaining > 0
countdown_expires(t) == t.active /\ t.time_remaining <= 0

Alive(t) == t.thread \notin {"none", "dead"}

timer_new ==
    /\ ~timer.made
    /\ \E duration \in 0..MaxDuration : timer' = Timer(duration)
    /\ UNCHANGED others

timer_start ==
    /\ timer.made /\ timer.starts < MaxStarts /\ ~timer.adding
    /\ timer' = [timer EXCEPT !.time_remaining = timer.duration,
                              !.active = TRUE,
                              !.thread = IF Alive(timer) THEN @ ELSE "while",
                              !.starts = @ + 1,
                              !.stopped = FALSE]
    /\ UNCHANGED others

timer_stop ==
    /\ timer.starts > 0 /\ timer.stops < MaxStops /\ ~timer.adding
    /\ timer' = [timer EXCEPT !.active = FALSE, !.stops = @ + 1, !.stopped = TRUE]
    /\ UNCHANGED others

\* add_time: "if self.active" and the read of time_remaining ...
timer_add_time ==
    /\ timer.starts > 0 /\ timer.adds = 0 /\ ~timer.adding
    /\ timer.active
    /\ timer' = [timer EXCEPT !.adding = TRUE, !.added = timer.time_remaining]
    /\ UNCHANGED others

\* ... and its write.
timer_add_time_write ==
    /\ timer.adding
    /\ timer' = [timer EXCEPT !.adding = FALSE, !.adds = @ + 1,
                              !.time_remaining = timer.added + AddedTime]
    /\ UNCHANGED others

countdown_while ==
    /\ timer.thread = "while"
    /\ timer' = [timer EXCEPT !.thread = IF countdown_continues(timer) THEN "tick" ELSE "if"]
    /\ UNCHANGED others

countdown_tick ==
    /\ timer.thread = "tick"
    /\ timer' = [timer EXCEPT !.ticks = Append(@, timer.time_remaining), !.thread = "sleep"]
    /\ UNCHANGED others

\* time.sleep(1), then the read of "self.time_remaining -= 1" ...
countdown_sleep ==
    /\ timer.thread = "sleep"
    /\ timer' = [timer EXCEPT !.loaded = timer.time_remaining, !.thread = "store"]
    /\ UNCHANGED others

\* ... and its write.
countdown_store ==
    /\ timer.thread = "store"
    /\ timer' = [timer EXCEPT !.time_remaining = timer.loaded - 1, !.thread = "while"]
    /\ UNCHANGED others

countdown_if ==
    /\ timer.thread = "if"
    /\ timer' = [timer EXCEPT !.thread = IF countdown_expires(timer) THEN "clear" ELSE "dead"]
    /\ UNCHANGED others

countdown_clear ==
    /\ timer.thread = "clear"
    /\ timer' = [timer EXCEPT !.active = FALSE, !.thread = "expire"]
    /\ UNCHANGED others

countdown_on_expire ==
    /\ timer.thread = "expire"
    /\ timer' = [timer EXCEPT !.expired = @ + 1, !.thread = "dead",
                              !.late = IF timer.stopped THEN @ + 1 ELSE @]
    /\ UNCHANGED others

NextTimer ==
    \/ timer_new
    \/ timer_start
    \/ timer_stop
    \/ timer_add_time
    \/ timer_add_time_write
    \/ countdown_while
    \/ countdown_tick
    \/ countdown_sleep
    \/ countdown_store
    \/ countdown_if
    \/ countdown_clear
    \/ countdown_on_expire
SpecTimer == Init /\ [][NextTimer]_vars

\* =================================================================== claims
\* The state of the program: game_state, the prompt bank and the timers.
game == <<phase, players, drawings, guesses, votes, current_drawing_index,
          round, continue_ready, prompt_bank, drawing_timer, guessing_timer,
          voting_timer>>
Runs(f, i) == IF i \in DOMAIN f THEN f[i] ELSE 0
VotesOf(i) == IF i \in DOMAIN votes THEN votes[i] ELSE << >>
\* This step ran show_current_scores for drawing i.
ScoredNow(i) == Runs(scoreRuns', i) > Runs(scoreRuns, i)

\* C1: show_current_scores runs at most once for a drawing, however the vote
\* handlers and the voting timer's expiry interleave.
C1_ScoredOncePerDrawing == \A i \in DOMAIN scoreRuns : scoreRuns[i] <= 1

\* C2: a submit_vote or submit_likes_only from a connection that already has
\* a vote for the current drawing changes nothing and scores nothing.
C2_DuplicateVoteIgnored ==
    [][\A sid \in Sids :
          (/\ Has(VotesOf(current_drawing_index), sid)
           /\ handle_vote(sid) \/ handle_likes_only(sid))
          => UNCHANGED <<game, scoreRuns>>]_vars

\* C3: when show_current_scores runs for drawing i, votes[i] has one entry for
\* each player of the roster: as many entries as players, no player_id twice.
C3_VotesMatchRosterAtScoring ==
    [][\A i \in DOMAIN scoreRuns' :
          ScoredNow(i) =>
            /\ Len(VotesOf(i)') = Cardinality(DOMAIN players')
            /\ \A j, k \in 1..Len(VotesOf(i)') :
                  VotesOf(i)'[j].player_id = VotesOf(i)'[k].player_id => j = k]_vars

\* C4: drawings never holds two entries with the same player_id, and in every
\* state handle_drawing for a connection that has an entry returns the state
\* as it found it.
NoDuplicateDrawing ==
    \A j, k \in 1..Len(drawings) :
        drawings[j].player_id = drawings[k].player_id => j = k
C4_OneDrawingPerPlayer ==
    /\ NoDuplicateDrawing
    /\ \A sid \in Sids : Has(drawings, sid) => drawing(GS, sid) = GS
\* A player with a drawing stored is connected while the round is still in
\* its drawing phase: the state a second submit_drawing arrives in.
C4_SecondSubmitPossible ==
    /\ phase = "drawing" /\ drawing_timer.active
    /\ \E sid \in DOMAIN players : Open(sid) /\ Has(drawings, sid)

\* C5: when the phase goes from drawing to guessing, there are as many
\* drawings as players (under SpecDraw: joins, disconnects, submit_drawing and
\* the drawing timer in any order).
C5_DrawingsCompleteOnLeaving ==
    [][phase = "drawing" /\ phase' = "guessing"
       => Len(drawings') = Cardinality(DOMAIN players')]_vars
\* Guessing was reached after a player left during the round.
C5_LeftDrawingAfterDisconnect ==
    /\ phase = "guessing" /\ round = 1 /\ guessing_timer.active
    /\ Cardinality(DOMAIN players) = 2 /\ Len(drawings) = 2
    /\ closed \cap Regulars # {}

\* C6: while the phase is guessing or voting, current_drawing_index is an
\* index of drawings.
C6_CursorInRange ==
    phase \in {"guessing", "voting"} => current_drawing_index < Len(drawings)

\* C7: the phase goes from lobby to drawing only with MIN_PLAYERS players or
\* more.
C7_StartNeedsMinPlayers ==
    [][phase = "lobby" /\ phase' = "drawing"
       => Cardinality(DOMAIN players') >= MIN_PLAYERS]_vars

\* C8: once the phase is final it stays final, except that play_again makes
\* it lobby.
C8_FinalIsTerminal ==
    [][phase = "final"
       => phase' = "final" \/ (handle_play_again /\ phase' = "lobby")]_vars

\* C9: continue_to_next moves the cursor off a drawing (to the next drawing,
\* the next round or the final scores) only after show_current_scores has run
\* for that drawing.
C9_ContinueAfterScoring ==
    [][\A sid \in Sids :
          (/\ handle_continue(sid)
           /\ HasCurrent(GS)
           /\ <<current_drawing_index, round, phase>>'
                # <<current_drawing_index, round, phase>>)
          => Runs(scoreRuns, current_drawing_index) > 0]_vars

\* C10: with one player silent, the game never comes to a stop on its first
\* drawing: until the cursor moves on, a timer still counts or an event of a
\* player that responds still changes the state.
C10_NeverStalled ==
    phase \in {"drawing", "guessing", "voting"} /\ current_drawing_index = 0
        => ~Stalled

\* C11: when the drawing timer expires in the drawing phase, that step itself
\* stops the timer and moves to guessing with the cursor on drawing 0.
C11_DrawingExpiryAdvances ==
    [][phase = "drawing" /\ drawing_timer_expire
       => phase' = "guessing" /\ current_drawing_index' = 0]_vars

\* C12: voting for a drawing is started once: a guess_time_up that arrives
\* when the phase is already voting changes nothing, starts no timer.
C12_VotingStartedOnce ==
    [][phase = "voting" /\ handle_guess_time_up => UNCHANGED <<game, orphans>>]_vars

\* C13: when the voting timer of the current drawing expires, that step leaves
\* every player of the roster with a vote, the votes it adds being empty and
\* without likes and the votes it found being kept; it runs the scoring of
\* that drawing and leaves phase, cursor and round as they are.  No timer
\* step changes phase, cursor or round while the scoreboard is shown.
TimerStep ==
    \/ drawing_timer_expire \/ guessing_timer_expire \/ voting_timer_expire
    \/ \E kind \in DOMAIN orphans : orphan_expire(kind)
GuessesOf(i) == IF i \in DOMAIN guesses THEN guesses[i] ELSE << >>
PromptOf(i) == IF i < Len(drawings) THEN drawings[i + 1].prompt ELSE None

\* C14: a submit_guess whose text is the real prompt of the current drawing,
\* in the prompt's own casing or in capitals, from any connection, leaves the
\* whole game as it was (guesses and phase included), so sending it again does
\* the same; and no stored guess of a drawing equals that drawing's prompt
\* case-insensitively.
C14_RealPromptRejected ==
    /\ HasCurrent(GS) /\ Current(GS).prompt # None
          => \A sid \in Sids : \A text \in {Current(GS).prompt, Upper(Current(GS).prompt)} :
                guess(GS, sid, text) = GS
    /\ \A i \in DOMAIN guesses : \A j \in 1..Len(guesses[i]) :
          PromptOf(i) # None => Lower(guesses[i][j].guess) # Lower(PromptOf(i))

\* Guessing is open on a drawing with a real prompt, one guess is stored and
\* another player has yet to guess.
C14_GuessingOnRealPrompt ==
    /\ phase = "guessing" /\ HasCurrent(GS) /\ Current(GS).prompt # None
    /\ Upper(Current(GS).prompt) # Current(GS).prompt
    /\ Len(CurrentGuesses(GS)) = 1
    /\ \E sid \in DOMAIN players : ~IsArtist(sid) /\ ~Has(CurrentGuesses(GS), sid)

\* Texts a client may type as a guess, with their surrounding blanks.
GuessTexts == {" ", " dog", "dog", "Dog", "bird", "owl"}

\* A submit_guess whose stripped text equals a guess stored for the current
\* drawing, whatever the casing, leaves the game as it was.
StoredGuessRejected ==
    \A sid \in Sids : \A text \in GuessTexts :
        (\E j \in 1..Len(CurrentGuesses(GS)) :
              Lower(Strip(text)) = Lower(CurrentGuesses(GS)[j].guess))
            => guess(GS, sid, text) = GS

\* C15 as stated: no two guesses stored for the same drawing have texts that
\* are equal case-insensitively, and a submit_guess equal to a stored guess is
\* rejected and not stored.
C15_NoEqualGuesses ==
    /\ \A i \in DOMAIN guesses : \A j, k \in 1..Len(guesses[i]) :
          j # k => Lower(guesses[i][j].guess) # Lower(guesses[i][k].guess)
    /\ StoredGuessRejected

\* C15 amended: no two guesses stored for the same drawing have non-empty texts
\* that are equal case-insensitively (the empty texts filled in by
\* guess_time_up may repeat), and a submit_guess equal to a stored guess is
\* rejected and not stored.
C15_NoEqualNonEmptyGuesses ==
    /\ \A i \in DOMAIN guesses : \A j, k \in 1..Len(guesses[i]) :
          j # k /\ guesses[i][j].guess # ""
             => Lower(guesses[i][j].guess) # Lower(guesses[i][k].guess)
    /\ StoredGuessRejected

\* Two guesses are stored for a drawing, one of them the word that clients
\* type in two casings.
C15_TwoGuessesStored ==
    \E i \in DOMAIN guesses :
        /\ Len(guesses[i]) >= 2
        /\ \E j \in 1..Len(guesses[i]) : Lower(guesses[i][j].guess) = "dog"

\* C16: guesses[i] holds at most one guess per player, and a submit_guess sent
\* by the artist of the current drawing or by a connection that is not a
\* player is not stored and does not move the game on to voting.
C16_OnlyNonArtistPlayersGuess ==
    [][ /\ \A i \in DOMAIN guesses' : \A j, k \in 1..Len(guesses'[i]) :
              j # k => guesses'[i][j].player_id # guesses'[i][k].player_id
        /\ \A sid \in Sids :
              handle_guess(sid) /\ (IsArtist(sid) \/ ~IsPlayer(sid))
                 => guesses' = guesses /\ phase' = phase ]_vars

\* C17: when a submit_guess or a disconnect moves the game from guessing to
\* voting, every player then in the roster other than the artist has exactly
\* one guess stored for the current drawing, and its text is not empty.
C17_CompleteMeansAllGuessed ==
    [][ /\ phase = "guessing" /\ phase' = "voting"
        /\ \E sid \in Sids : handle_guess(sid) \/ handle_disconnect(sid)
        => \A pid \in DOMAIN players' :
              (current_drawing_index' < Len(drawings')
                 => pid # drawings'[current_drawing_index' + 1].player_id)
              => \E j \in 1..Len(guesses'[current_drawing_index']) :
                    /\ guesses'[current_drawing_index'][j].player_id = pid
                    /\ guesses'[current_drawing_index'][j].guess # "" ]_vars

\* A submit_guess with nothing but blanks from connection sid.
BlankGuess(sid) ==
    Open(sid) /\ Take("submit_guess", sid, " ", guess(GS, sid, " ")) /\ Quiet

\* C18: a submit_guess whose text is empty after stripping stores nothing and
\* does not move the game on to voting.
C18_BlankGuessNotStored ==
    [][\A sid \in Sids : BlankGuess(sid) => guesses' = guesses /\ phase' = phase]_vars

\* What the scoring rule of C19 gives player pid for one recorded vote v on a
\* drawing with real prompt `correct`, artist `artist` and stored guesses G:
\* 1000 to the voter and 500 to the artist for the real prompt, 500 to the
\* author and nothing to the voter for a stored guess, nothing otherwise.
RuleGain(pid, v, G, correct, artist) ==
    IF v.vote = None \/ v.vote = "" THEN 0
    ELSE IF Lower(v.vote) = Lower(correct)
         THEN (IF pid = v.player_id THEN 1000 ELSE 0) + (IF pid = artist THEN 500 ELSE 0)
    ELSE IF /\ pid # v.player_id
            /\ \E j \in 1..Len(G) : G[j].player_id = pid /\ G[j].guess # ""
                                    /\ Lower(G[j].guess) = Lower(v.vote)
         THEN 500
         ELSE 0

RECURSIVE RuleGains(_, _, _, _, _)
RuleGains(pid, V, G, correct, artist) ==
    IF V = << >> THEN 0
    ELSE RuleGain(pid, Head(V), G, correct, artist)
            + RuleGains(pid, Tail(V), G, correct, artist)

\* C19: whenever a step scores the current drawing (once), every player of the
\* roster gains exactly what the rule gives for the recorded votes: 1000 per
\* own choice of the real prompt, 500 to the artist per such voter, 500 to the
\* author of a chosen guess and nothing to its voter, nothing for an empty or
\* null choice, and nothing else.
C19_ScoresFollowRule ==
    [][ /\ HasCurrent(GS) /\ Current(GS).prompt # None
        /\ Runs(scoreRuns', current_drawing_index) = Runs(scoreRuns, current_drawing_index) + 1
        /\ current_drawing_index' = current_drawing_index
        => \A pid \in DOMAIN players' :
              players'[pid].score - players[pid].score
                 = RuleGains(pid, VotesOf(current_drawing_index)', GuessesOf(current_drawing_index),
                             Current(GS).prompt, Current(GS).player_id) ]_vars

\* The records of the worked example are in place for drawing 0: A drew
\* 'flying cat', B's guess is 'cat with wings' and C's is 'superman', B voted
\* 'flying cat', C voted 'cat with wings' and A sent likes only.
StoryRecorded ==
    /\ current_drawing_index = 0 /\ HasCurrent(GS)
    /\ Current(GS).player_id = 1 /\ Current(GS).prompt = "flying cat"
    /\ GuessesOf(0) = <<[player_id |-> 2, guess |-> "cat with wings"],
                        [player_id |-> 3, guess |-> "superman"]>>
    /\ Len(VotesOf(0)) = 3
    /\ VotesOf(0)[1].player_id = 1 /\ VotesOf(0)[1].vote = None
    /\ VotesOf(0)[2].player_id = 2 /\ VotesOf(0)[2].vote = "flying cat"
    /\ VotesOf(0)[3].player_id = 3 /\ VotesOf(0)[3].vote = "cat with wings"

\* C20: in the worked example C's guess 'flying cat' is rejected while
\* guessing is open on A's drawing, and once the drawing is scored with the
\* example's guesses and votes on record the scores are A = 500, B = 1500,
\* C = 0.
C20_WorkedScenario ==
    /\ phase = "guessing" /\ HasCurrent(GS) /\ Current(GS).prompt = "flying cat"
          => guess(GS, 3, "flying cat") = GS
    /\ ScoreboardShown /\ StoryRecorded
          => /\ players[1].score = 500
             /\ players[2].score = 1500
             /\ players[3].score = 0

\* The example has been played to its scoreboard.
C20_ScenarioScored == ScoreboardShown /\ StoryRecorded /\ Runs(scoreRuns, 0) = 1

\* The number of liked texts, over all votes of V, that are letter for letter
\* the text of pid's guess in G.
LikedTimes(pid, V, G) ==
    Cardinality({t \in UNION {{<<a, b>> : b \in 1..Len(V[a].likes)} : a \in 1..Len(V)} :
                    \E c \in 1..Len(G) : /\ G[c].player_id = pid
                                         /\ G[c].guess = V[t[1]].likes[t[2]]})

\* The votes of V with their liked texts taken away.
WithoutLikes(V) == [a \in 1..Len(V) |-> [V[a] EXCEPT !.likes = << >>]]

\* C21: whenever a step scores the current drawing (once), the likes counter
\* of every player of the roster goes up by the number of liked texts, in all
\* recorded votes whatever their choice, that are letter for letter that
\* player's guess; a liked text in another casing or nobody's guess counts for
\* nothing; and the scores are what they would be had nobody liked anything.
C21_LikesCountExactTexts ==
    [][ /\ HasCurrent(GS) /\ Current(GS).prompt # None
        /\ Runs(scoreRuns', current_drawing_index) = Runs(scoreRuns, current_drawing_index) + 1
        /\ current_drawing_index' = current_drawing_index
        => LET i == current_drawing_index
               V == VotesOf(i)'
               G == GuessesOf(i)
               bare == calculate_scores_for_drawing(
                          [GS EXCEPT !.players = [pid \in DOMAIN players' |-> players[pid]],
                                     !.votes = Put(votes', i, WithoutLikes(V))], i).s.players
           IN \A pid \in DOMAIN players' :
                 /\ players'[pid].likes - players[pid].likes = LikedTimes(pid, V, G)
                 /\ players'[pid].score = bare[pid].score ]_vars

\* A drawing has been scored with a correct vote, a wrong vote and an empty
\* vote on record; between them the votes like a guess as typed, a guess in
\* another casing and a text nobody typed, and a player has a like.
C21_LikesOfEveryKindScored ==
    /\ ScoreboardShown /\ Runs(scoreRuns, current_drawing_index) = 1
    /\ \E a, b, c \in 1..Len(VotesOf(current_drawing_index)) :
          LET V == VotesOf(current_drawing_index) IN
          /\ V[a].vote = None /\ V[a].likes = <<"moon">>
          /\ V[b].vote = "flying cat" /\ V[b].likes = <<"Superman">>
          /\ V[c].vote = "cat with wings" /\ V[c].likes = <<"cat with wings">>
    /\ players[2].likes = 1 /\ players[3].likes = 0

\* C22: when a player disconnects during drawing, guessing or voting (before
\* the scoreboard), somebody stays, and every player left in the roster has
\* submitted (a drawing; a guess, the artist excepted; a vote), the same
\* handler stops the phase's timer and moves on: to guessing on drawing 0, to
\* voting, to the scoreboard.
C22_DisconnectReevaluates ==
    \A sid \in DOMAIN players :
        LET s == disconnect(GS, sid)
            left == DOMAIN s.players
        IN left # {} =>
           /\ phase = "drawing" /\ (\A q \in left : Has(drawings, q))
                => s.phase = "guessing" /\ s.idx = 0 /\ ~s.dt.active
           /\ phase = "guessing" /\ HasCurrent(GS)
              /\ (\A q \in left \ {Current(GS).player_id} : Has(CurrentGuesses(GS), q))
                => s.phase = "voting" /\ s.idx = current_drawing_index /\ ~s.gt.active
           /\ phase = "voting" /\ ~ScoreboardShown /\ HasCurrent(GS)
              /\ (\A q \in left : Has(VotesOf(current_drawing_index), q))
                => /\ Runs(s.scoreRuns, current_drawing_index) = 1
                   /\ s.phase = "voting" /\ ~s.vt.active

\* The votes of V whose voter is not among `gone`.
RECURSIVE VotesBut(_, _)
VotesBut(V, gone) ==
    IF V = << >> THEN << >>
    ELSE IF Head(V).player_id \in gone
         THEN VotesBut(Tail(V), gone)
         ELSE <<Head(V)>> \o VotesBut(Tail(V), gone)

\* C23: whenever a step scores the current drawing (once), scoring completes,
\* and the scores and likes of the players in the roster are what the recorded
\* votes other than those of disconnected players give: the recorded vote and
\* likes of a player who has left award nothing to anyone.
C23_VanishedVotesAwardNothing ==
    [][ /\ HasCurrent(GS) /\ Current(GS).prompt # None
        /\ Runs(scoreRuns', current_drawing_index) = Runs(scoreRuns, current_drawing_index) + 1
        /\ current_drawing_index' = current_drawing_index
        => LET i == current_drawing_index
               roster == DOMAIN players'
               before == [GS EXCEPT !.players = [pid \in roster |-> players[pid]]]
               all == calculate_scores_for_drawing(
                          [before EXCEPT !.votes = Put(votes', i, VotesOf(i)')], i)
               live == calculate_scores_for_drawing(
                          [before EXCEPT !.votes =
                              Put(votes', i, VotesBut(VotesOf(i)', closed'))], i)
           IN /\ all.result = "ok"
              /\ \A pid \in roster :
                    /\ players'[pid].score = live.s.players[pid].score
                    /\ players'[pid].likes = live.s.players[pid].likes ]_vars

\* C24: a submit_guess or guess_time_up outside the guessing phase, a
\* submit_vote, submit_likes_only or continue_to_next outside the voting
\* phase, and any of them while current_drawing_index is not below the number
\* of drawings, leaves the game state and the timers as they were.
C24_StaleEventsChangeNothing ==
    [][ \/ /\ phase # "guessing" \/ ~HasCurrent(GS)
           /\ handle_guess_time_up \/ \E sid \in Sids : handle_guess(sid)
        \/ /\ phase # "voting" \/ ~HasCurrent(GS)
           /\ \E sid \in Sids : \/ handle_vote(sid)
                                \/ handle_likes_only(sid)
                                \/ handle_continue(sid)
        => UNCHANGED <<game, orphans>> ]_vars

\* The values d, d-1, ..., 1.
Countdown(d) == [j \in 1..d |-> d - j + 1]

\* C25: a Timer of duration d that was started once and neither stopped nor
\* extended calls on_tick with d, d-1, ..., 1 in that order and nothing else,
\* calls on_expire once, after the last tick, and is inactive when its thread
\* has ended.
C25_TicksThenOneExpiry ==
    timer.starts = 1 /\ timer.stops = 0 /\ timer.adds = 0 /\ ~timer.adding
       => /\ Len(timer.ticks) <= timer.duration
          /\ timer.ticks = SubSeq(Countdown(timer.duration), 1, Len(timer.ticks))
          /\ timer.expired <= 1
          /\ timer.expired = 1 => ~timer.active /\ timer.ticks = Countdown(timer.duration)
          /\ timer.thread = "dead" => timer.expired = 1 /\ ~timer.active

\* The longest Timer has run out undisturbed.
C25_RanOutUndisturbed ==
    /\ timer.duration = MaxDuration /\ timer.thread = "dead" /\ timer.expired = 1
    /\ timer.starts = 1 /\ timer.stops = 0 /\ timer.adds = 0 /\ ~timer.adding

\* C26: a Timer of duration d > 0 that was started once, never stopped, and
\* extended by one add_time(k) call made while it was active has, when its
\* thread has ended, called on_tick d+k times and on_expire once.
C26_AddTimeAddsTicks ==
    (/\ timer.duration > 0
     /\ timer.starts = 1 /\ timer.stops = 0 /\ timer.adds = 1 /\ timer.thread = "dead")
       => (Len(timer.ticks) = timer.duration + AddedTime /\ timer.expired = 1)

\* C27: on_expire is never called once stop has returned, until the timer is
\* started again.
C27_NoExpiryAfterStop == timer.late = 0

\* C28: no Timer that start_timer, start_guess_timer or start_vote_timer
\* has replaced is still counting down: each of the three timers has at most
\* one running countdown.
C28_OneCountdownPerTimer == \A kind \in DOMAIN orphans : orphans[kind] = 0

\* C29: an add_time event adds ADD_TIME_SECONDS to the drawing, guessing or
\* voting timer that is counting, and changes nothing when none is.
C29_AddTimeExtendsActiveTimer ==
    LET s == extend(GS) IN
    /\ drawing_timer.active
          => s.dt.time_remaining = drawing_timer.time_remaining + ADD_TIME_SECONDS
    /\ guessing_timer.active /\ ~drawing_timer.active
          => s.gt.time_remaining = guessing_timer.time_remaining + ADD_TIME_SECONDS
    /\ voting_timer.active /\ ~drawing_timer.active /\ ~guessing_timer.active
          => s.vt.time_remaining = voting_timer.time_remaining + ADD_TIME_SECONDS
    /\ ~drawing_timer.active /\ ~guessing_timer.active /\ ~voting_timer.active
          => s = GS

\* C30: a continue_to_next received while the scoreboard is shown leaves phase
\* and index alone as long as some player's signal is missing; with the last
\* player's signal continue_ready is cleared and either the index goes up by
\* one and guessing starts on that drawing, or (no such drawing, round below
\* NUM_ROUNDS) a new round starts in 'drawing' with drawings, guesses and
\* votes emptied and index 0, or (otherwise) the phase becomes 'final'.
C30_ContinueStep ==
    [][ \A sid \in Sids : ScoreboardShown /\ handle_continue(sid) =>
          IF DOMAIN players \subseteq continue_ready \cup {sid}
          THEN /\ continue_ready' = {}
               /\ IF current_drawing_index + 1 < Len(drawings)
                  THEN /\ current_drawing_index' = current_drawing_index + 1
                       /\ phase' = "guessing"
                  ELSE IF round < NUM_ROUNDS
                  THEN /\ phase' = "drawing" /\ current_drawing_index' = 0
                       /\ drawings' = << >> /\ guesses' = << >> /\ votes' = << >>
                  ELSE phase' = "final"
          ELSE /\ phase' = phase
               /\ current_drawing_index' = current_drawing_index ]_vars

\* C31: in whatever state play_again arrives, afterwards the phase is 'lobby',
\* drawings, guesses, votes and continue_ready are empty, round and index are
\* 0, every player's score and likes are 0, and the roster has the same ids
\* with every other field of each player (name, emoji, prompt) as before.
C31_PlayAgainResets ==
    LET s == play_again(GS) IN
    /\ s.phase = "lobby"
    /\ s.drawings = << >> /\ s.guesses = << >> /\ s.votes = << >> /\ s.ready = {}
    /\ s.round = 0 /\ s.idx = 0
    /\ DOMAIN s.players = DOMAIN players
    /\ \A pid \in DOMAIN players :
          /\ s.players[pid].score = 0 /\ s.players[pid].likes = 0
          /\ [s.players[pid] EXCEPT !.score = players[pid].score,
                                    !.likes = players[pid].likes] = players[pid]

\* A scoreboard is shown with points and likes won, votes and guesses on
\* record and a continue signal received: everything play_again has to reset.
C31_SomethingToReset ==
    /\ ScoreboardShown /\ round = 1 /\ continue_ready # {}
    /\ \E pid \in DOMAIN players : players[pid].score > 0
    /\ \E pid \in DOMAIN players : players[pid].likes > 0

\* C32: when player 1 ("ann") disconnects in the middle of a game, the join of
\* connection 4 under the same name in another letter case ("Ann") that follows
\* puts 4 on the roster with the score, likes and prompt player 1 had.
C32_RejoinRestoresPlayer ==
    [][(/\ handle_disconnect(1)
        /\ 1 \in DOMAIN players
        /\ 4 \notin DOMAIN players
        /\ phase \in {"drawing", "guessing", "voting"}
        /\ phase' \in {"drawing", "guessing", "voting"})
       => LET s == join(GS', 4, Strip(NameOf[4]), EmojiOf[4]) IN
          /\ 4 \in DOMAIN s.players
          /\ s.players[4].score = players[1].score
          /\ s.players[4].likes = players[1].likes
          /\ s.players[4].prompt = players[1].prompt]_vars

\* C33: while the players draw, every player holds a prompt and no two players
\* hold the same prompt.
C33_PromptsDistinct ==
    phase = "drawing" =>
        /\ \A pid \in DOMAIN players : players[pid].prompt # None
        /\ \A p, q \in DOMAIN players :
              p # q => players[p].prompt # players[q].prompt

\* The places of the options of list opts that carry text t.
Places(opts, t) == {j \in 1..Len(opts) : opts[j].text = t}

\* What the option lists of a vote have in common whatever the guesses are:
\* the real prompt is there exactly once, and a non-artist's list has no option
\* authored by the recipient and none with the text of the recipient's guess.
OptionsSound(Sent(_)) ==
    \A pid \in DOMAIN players :
        LET opts == options(GS, pid)
            cur == Current(GS)
            gs == CurrentGuesses(GS)
        IN /\ Cardinality({j \in 1..Len(opts) : opts[j].is_correct}) = 1
           /\ Cardinality({j \in 1..Len(opts) :
                              Lower(opts[j].text) = Lower(cur.prompt)}) = 1
           /\ \A j \in 1..Len(gs) :
                 (Sent(gs[j]) /\ (pid = cur.player_id \/ gs[j].player_id # pid))
                    => \E k \in Places(opts, gs[j].guess) :
                          opts[k].player_id = gs[j].player_id /\ ~opts[k].is_correct
           /\ pid # cur.player_id =>
                 /\ \A k \in 1..Len(opts) : opts[k].player_id # pid
                 /\ \A j \in 1..Len(gs) :
                       gs[j].player_id = pid /\ gs[j].guess # ""
                          => Places(opts, gs[j].guess) = {}

AnyGuess(g) == TRUE
NonBlank(g) == Strip(g.guess) # ""
VotingOnDrawing == phase = "voting" /\ HasCurrent(GS) /\ ~ScoreboardShown

\* C34 as stated: while a drawing is voted on, each player's option list holds
\* the real prompt exactly once and every guess for the drawing (every guess
\* of another author for a non-artist), and never the recipient's own guess.
C34_OptionsHoldEveryGuess == VotingOnDrawing => OptionsSound(AnyGuess)

\* C34 amended: the same for every guess that is not blank.
C34_OptionsHoldNonBlankGuesses == VotingOnDrawing => OptionsSound(NonBlank)

\* A vote in which one player's guess is a word and another's is the blank
\* the time-out filled in.
C34_WordAndBlankOnOffer ==
    /\ VotingOnDrawing
    /\ \E j, k \in 1..Len(CurrentGuesses(GS)) :
          /\ CurrentGuesses(GS)[j].guess # "" /\ CurrentGuesses(GS)[k].guess = ""
          /\ IsPlayer(CurrentGuesses(GS)[j].player_id)
          /\ IsPlayer(CurrentGuesses(GS)[k].player_id)
          /\ ~IsArtist(CurrentGuesses(GS)[j].player_id)

\* C35: once the scores of a drawing of the round have been computed, no event
\* and no timer expiry makes show_current_scores compute them again or moves a
\* player's score while that drawing's scoreboard is shown.
C35_NoSecondScoring ==
    [][\A i \in DOMAIN scoreRuns \cap DOMAIN scoreRuns' :
          /\ scoreRuns'[i] <= scoreRuns[i]
          /\ (ScoreboardShown /\ ScoreboardShown'
                /\ current_drawing_index' = current_drawing_index
                /\ round' = round /\ DOMAIN players' = DOMAIN players)
                => \A pid \in DOMAIN players :
                      players'[pid].score = players[pid].score]_vars

\* What scoring the drawing under the cursor with the recorded votes gives
\* player pid over and above scoring it with pid's own vote left out.
OwnVoteGain(pid) ==
    LET i == current_drawing_index
        all == calculate_scores_for_drawing(GS, i)
        rest == calculate_scores_for_drawing(
                    [GS EXCEPT !.votes = Put(votes, i, VotesBut(VotesOf(i), {pid}))], i)
    IN all.s.players[pid].score - rest.s.players[pid].score

\* C36: a player's own vote earns that player 1000 points when the player is
\* not the artist and chose the real prompt, and nothing otherwise: nothing for
\* choosing the own guess, nothing for the artist's vote on the own drawing.
C36_OwnVoteEarnsOnlyForRealPrompt ==
    (phase = "voting" /\ HasCurrent(GS) /\ Current(GS).prompt # None)
       => \A pid \in DOMAIN players :
             OwnVoteGain(pid) =
                IF /\ pid # Current(GS).player_id
                   /\ \E j \in 1..Len(VotesOf(current_drawing_index)) :
                         LET v == VotesOf(current_drawing_index)[j] IN
                         /\ v.player_id = pid /\ v.vote # None /\ v.vote # ""
                         /\ Lower(v.vote) = Lower(Current(GS).prompt)
                THEN 1000 ELSE 0

\* C37: start_game received while the phase is 'drawing', 'guessing', 'voting'
\* or 'final' changes neither round, drawings, guesses, votes, cursor, phase
\* nor any player's prompt, and starts no timer.
C37_StartIgnoredOutsideLobby ==
    [][(handle_start /\ phase # "lobby")
          => /\ UNCHANGED <<round, drawings, guesses, votes, current_drawing_index,
                            phase, drawing_timer, guessing_timer, voting_timer,
                            orphans>>
             /\ \A pid \in DOMAIN players :
                   players'[pid].prompt = players[pid].prompt]_vars

\* C38: the round number never exceeds NUM_ROUNDS.
C38_RoundWithinLimit == round \in 0..NUM_ROUNDS

\* C39: continue_ready holds only ids of players on the roster, and holds a
\* signal only while a scoreboard is shown (none that was sent before it).
C39_ReadyArePlayersAtScoreboard ==
    /\ continue_ready \subseteq DOMAIN players
    /\ continue_ready # {} => ScoreboardShown

\* C40: while the phase is 'lobby' or 'final' no countdown is running, neither
\* of a timer the server still refers to nor of one it has replaced.
C40_NoCountdownOutsideGame ==
    phase \in {"lobby", "final"} =>
        /\ ~drawing_timer.active /\ ~guessing_timer.active /\ ~voting_timer.active
        /\ \A kind \in DOMAIN orphans : orphans[kind] = 0

====
